---- MODULE Spec2Model ----
(***************************************************************************)
(* Model of src/app.py: the /generate handler (generate_text), the prompt  *)
(* builder (generate_prompt) and the backend call with NDJSON line         *)
(* aggregation (get_response).                                             *)
(*                                                                         *)
(* Text is a sequence of characters over a two-letter alphabet: "a" (any   *)
(* non-whitespace character) and " " (any whitespace character).  A        *)
(* request body is a sequence of tokens: "D" is one occurrence of the      *)
(* DELIMITER literal, "x" any other decodable text, "bad" a byte sequence  *)
(* that is not valid UTF-8.  A backend line is a record naming what        *)
(* line.strip() and json.loads make of it.                                 *)
(***************************************************************************)
EXTENDS Naturals, Sequences, FiniteSets

VARIABLES
    pc,         \* position of the request / of the aggregation run
    body,       \* raw request body (tokens)
    prompt,     \* prompt built at line 143
    calls,      \* number of backend calls made for this request
    first,      \* first backend call: status, outcome, text after line 148
    second,     \* second backend call: status, outcome, text returned by it
    response,   \* generate_text's local variable `response`
    http,       \* status the client receives (0: not answered yet)
    reply,      \* backend reply under aggregation (SpecAgg)
    agg         \* outcome of get_response on reply (SpecAgg)

vars == <<pc, body, prompt, calls, first, second, response, http, reply, agg>>

-----------------------------------------------------------------------------
(* Bounds *)

MaxLines == 3
MaxBody == 2

-----------------------------------------------------------------------------
(* Text *)

Whitespace == {" "}

RECURSIVE lstrip(_)
lstrip(s) ==
    IF s = <<>> THEN <<>>
    ELSE IF Head(s) \in Whitespace THEN lstrip(Tail(s)) ELSE s

RECURSIVE rstrip(_)
rstrip(s) ==
    IF s = <<>> THEN <<>>
    ELSE IF s[Len(s)] \in Whitespace THEN rstrip(SubSeq(s, 1, Len(s) - 1)) ELSE s

\* str.strip(): remove leading and trailing whitespace
strip(s) == rstrip(lstrip(s))

-----------------------------------------------------------------------------
(* Backend replies *)

\* response fragments a chunk may carry
Fragments == {<<"a">>, <<" ">>}

\* value of a chunk's "done" member: absent, false, true, or a non-empty
\* JSON string such as "no"
DoneVals == {"absent", "false", "true", "string"}

\* Python truth value of parsed_response.get("done", False)
Truthy(d) == d \in {"true", "string"}

Plain(k) == [kind |-> k, field |-> "absent", response |-> <<>>, done |-> "absent"]

\* lines that json.loads turns into a dict
ObjectLines ==
    {[kind |-> "object", field |-> "absent", response |-> <<>>, done |-> d] :
        d \in DoneVals}
    \cup {[kind |-> "object", field |-> "string", response |-> f, done |-> d] :
        f \in Fragments, d \in DoneVals}
    \cup {[kind |-> "object", field |-> "number", response |-> <<>>, done |-> d] :
        d \in DoneVals}

\* "blank": empty after strip; "garbage": json.loads raises JSONDecodeError;
\* "number": a JSON number, null or boolean; "string_without"/"string_with":
\* a JSON string that does not / does contain the text response;
\* "ioerror": aiter_lines raises at this point of the stream
Lines ==
    ObjectLines
    \cup {Plain(k) : k \in {"blank", "garbage", "number", "string_without",
                            "string_with", "ioerror"}}

Streams == UNION {[1..n -> Lines] : n \in 0..MaxLines}

\* status 0: client.post raised (no HTTP response)
Statuses == {0, 200, 404, 503}

Replies ==
    {[status |-> 200, lines |-> l] : l \in Streams}
    \cup {[status |-> s, lines |-> <<>>] : s \in Statuses \ {200}}

-----------------------------------------------------------------------------
(* get_response *)

\* the loop body without the break of lines 110-111
ProcessLineNoBreak(line, combined) ==
    IF line.kind \in {"ioerror", "number", "string_with"}
    THEN [next |-> "raise", combined |-> combined]
    ELSE IF line.kind = "object" /\ line.field = "number"
    THEN [next |-> "raise", combined |-> combined]
    ELSE [next |-> "continue", combined |-> combined \o line.response]

\* the loop body without the except clause of lines 113-115
ProcessLineNoExcept(line, combined) ==
    IF line.kind \in {"ioerror", "number", "string_with", "garbage"}
    THEN [next |-> "raise", combined |-> combined]
    ELSE IF line.kind = "object" /\ line.field = "number"
    THEN [next |-> "raise", combined |-> combined]
    ELSE IF line.kind = "object" /\ line.field = "string" /\ Truthy(line.done)
    THEN [next |-> "break", combined |-> combined \o line.response]
    ELSE [next |-> "continue", combined |-> combined \o line.response]

\* one iteration of the loop body, lines 102-115
ProcessLine(line, combined) ==
    CASE line.kind = "ioerror" ->
            [next |-> "raise", combined |-> combined]
      [] line.kind = "blank" ->
            [next |-> "continue", combined |-> combined]
      [] line.kind = "garbage" ->
            [next |-> "continue", combined |-> combined]
      [] line.kind = "number" ->
            [next |-> "raise", combined |-> combined]
      [] line.kind = "string_without" ->
            [next |-> "continue", combined |-> combined]
      [] line.kind = "string_with" ->
            [next |-> "raise", combined |-> combined]
      [] line.kind = "object" ->
            IF line.field = "absent"
            THEN [next |-> "continue", combined |-> combined]
            ELSE IF line.field # "string"
            THEN [next |-> "raise", combined |-> combined]
            ELSE IF Truthy(line.done)
            THEN [next |-> "break", combined |-> combined \o line.response]
            ELSE [next |-> "continue", combined |-> combined \o line.response]

Returned(text, n) == [ok |-> TRUE, status_code |-> 200, text |-> text, consumed |-> n]

\* except Exception, lines 119-121
Raised(n) == [ok |-> FALSE, status_code |-> 500, text |-> <<>>, consumed |-> n]

\* async for line in response.aiter_lines(), lines 99-117
RECURSIVE aiter_lines(_, _, _)
aiter_lines(lines, i, combined_response) ==
    IF i > Len(lines) THEN Returned(combined_response, Len(lines))
    ELSE LET step == ProcessLine(lines[i], combined_response) IN
         CASE step.next = "raise" -> Raised(i)
           [] step.next = "break" -> Returned(step.combined, i)
           [] step.next = "continue" -> aiter_lines(lines, i + 1, step.combined)

\* get_response without the status check of lines 96-97
get_response_unchecked(r) ==
    IF r.status = 0 THEN Raised(0)
    ELSE aiter_lines(r.lines, 1, <<>>)

get_response(r) ==
    \* client.post raises: caught at line 119, HTTPException(500) at line 121
    IF r.status = 0 THEN Raised(0)
    \* line 97 raises HTTPException(status) inside the try block; it is an
    \* Exception, so line 119 catches it and line 121 raises 500 in its place
    ELSE IF r.status # 200 THEN Raised(0)
    ELSE aiter_lines(r.lines, 1, <<>>)

-----------------------------------------------------------------------------
(* generate_text *)

Tokens == {"D", "x", "bad"}

Bodies == UNION {[1..n -> Tokens] : n \in 0..MaxBody}

DELIMITER == "D"

\* raw_text.decode('utf-8')
Decodes(raw) == \A i \in 1..Len(raw) : raw[i] # "bad"

RECURSIVE find(_, _)
find(text, i) ==
    IF i > Len(text) THEN 0
    ELSE IF text[i] = DELIMITER THEN i ELSE find(text, i + 1)

\* raw_text.split(DELIMITER), every occurrence splitting
RECURSIVE split_all(_)
split_all(text) ==
    LET k == find(text, 1) IN
    IF k = 0 THEN <<text>>
    ELSE <<SubSeq(text, 1, k - 1)>> \o split_all(SubSeq(text, k + 1, Len(text)))

\* raw_text.split(DELIMITER, 1)
split(text) ==
    LET k == find(text, 1) IN
    IF k = 0 THEN <<text>>
    ELSE <<SubSeq(text, 1, k - 1), SubSeq(text, k + 1, Len(text))>>

generate_prompt(code_diff, user_instruction) ==
    strip(<<" ", "template">> \o code_diff \o <<"template">> \o user_instruction
          \o <<"template", " ">>)

\* record of one backend call: the backend's status, whether get_response
\* returned, and the text generate_text kept of it
NoCall == [called |-> FALSE, status |-> 0, ok |-> FALSE, text |-> <<>>]

Call(r, out, kept) == [called |-> TRUE, status |-> r.status, ok |-> out.ok, text |-> kept]

\* len(response) >= 0
NeedsRetryAlways(text) == Len(text) >= 0

\* len(response) == 0, line 150
NeedsRetry(text) == Len(text) = 0

NoReply == [status |-> 0, lines |-> <<>>]
NoAgg == [ok |-> FALSE, status_code |-> 0, text |-> <<>>, consumed |-> 0]

Init ==
    /\ pc = "start"
    /\ body \in Bodies
    /\ prompt = <<>>
    /\ calls = 0
    /\ first = NoCall
    /\ second = NoCall
    /\ response = <<>>
    /\ http = 0
    /\ reply = NoReply
    /\ agg = NoAgg

\* lines 132-143
Parse ==
    /\ pc = "start"
    /\ IF ~Decodes(body)
       THEN /\ http' = 500
            /\ pc' = "done"
            /\ prompt' = prompt
       ELSE LET parts == split(body) IN
            IF Len(parts) # 2
            THEN /\ http' = 400
                 /\ pc' = "done"
                 /\ prompt' = prompt
            ELSE /\ prompt' = generate_prompt(strip(parts[1]), strip(parts[2]))
                 /\ pc' = "call"
                 /\ http' = http
    /\ UNCHANGED <<body, calls, first, second, response, reply, agg>>

\* lines 146-150 (and 155 when the text is not empty)
FirstCall ==
    /\ pc = "call"
    /\ \E r \in Replies : \E out \in {get_response(r)} :
        /\ calls' = calls + 1
        /\ IF ~out.ok
           THEN /\ first' = Call(r, out, <<>>)
                /\ http' = out.status_code
                /\ pc' = "done"
                /\ response' = response
           ELSE \E stripped \in {strip(out.text)} :
                /\ first' = Call(r, out, stripped)
                /\ response' = stripped
                /\ IF NeedsRetry(stripped)
                   THEN pc' = "retry" /\ http' = http
                   ELSE pc' = "done" /\ http' = 200
    /\ UNCHANGED <<body, prompt, second, reply, agg>>

\* lines 151-155
RetryCall ==
    /\ pc = "retry"
    /\ \E r \in Replies : \E out \in {get_response(r)} :
        /\ calls' = calls + 1
        /\ second' = Call(r, out, out.text)
        /\ pc' = "done"
        /\ IF ~out.ok
           THEN http' = out.status_code /\ response' = response
           ELSE http' = 200 /\ response' = out.text
    /\ UNCHANGED <<body, prompt, first, reply, agg>>

Next == Parse \/ FirstCall \/ RetryCall

Spec == Init /\ [][Next]_vars

-----------------------------------------------------------------------------
(* get_response on its own: the reply is drawn, then aggregated *)

InitAgg ==
    /\ pc = "agg"
    /\ body = <<>>
    /\ prompt = <<>>
    /\ calls = 0
    /\ first = NoCall
    /\ second = NoCall
    /\ response = <<>>
    /\ http = 0
    /\ reply \in Replies
    /\ agg = NoAgg

Aggregate ==
    /\ pc = "agg"
    /\ agg' = get_response(reply)
    /\ pc' = "agg_done"
    /\ UNCHANGED <<body, prompt, calls, first, second, response, http, reply>>

NextAgg == Aggregate

SpecAgg == InitAgg /\ [][NextAgg]_vars

-----------------------------------------------------------------------------
(* Properties of get_response, checked under SpecAgg *)

\* a line the backend protocol describes: nothing after strip, or a JSON
\* object carrying a string `response`
IsChunk(line) ==
    \/ line.kind = "blank"
    \/ line.kind = "object" /\ line.field = "string"

AllChunks(lines) == \A i \in 1..Len(lines) : IsChunk(lines[i])

DoneIsTrue(d) == d = "true"

DoneIsTruthy(d) == d \in {"true", "string"}

\* index of the first object line whose done satisfies T, Len(lines) if none
FirstDone(lines, T(_)) ==
    LET hits == {i \in 1..Len(lines) : lines[i].kind = "object" /\ T(lines[i].done)} IN
    IF hits = {} THEN Len(lines)
    ELSE CHOOSE i \in hits : \A j \in hits : i <= j

\* the response fragments of lines 1..n, in arrival order
RECURSIVE Fragmented(_, _)
Fragmented(lines, n) ==
    IF n = 0 THEN <<>>
    ELSE Fragmented(lines, n - 1) \o lines[n].response

Aggregated == pc = "agg_done" /\ reply.status = 200

\* C1 as stated: over streams of chunks, get_response returns the fragments
\* up to and including the first line whose done is true (all of them when
\* there is none), and consumes no line after it.
C1Original ==
    Aggregated /\ AllChunks(reply.lines) =>
        LET k == FirstDone(reply.lines, DoneIsTrue) IN
        /\ agg.ok
        /\ agg.text = Fragmented(reply.lines, k)
        /\ agg.consumed = k

\* C1 amended: over streams of chunks, get_response returns the fragments up
\* to and including the first line whose done value is truthy (true, or a
\* non-boolean value Python counts as true such as a non-empty string), all
\* of them when there is none, and consumes no line after it.
C1Theorem ==
    Aggregated /\ AllChunks(reply.lines) =>
        LET k == FirstDone(reply.lines, DoneIsTruthy) IN
        /\ agg.ok
        /\ agg.text = Fragmented(reply.lines, k)
        /\ agg.consumed = k

\* [{response: x, done: false}, {response: y, done: true}, {response: z}]
\* aggregated to xy with the third line left unread
C1Witness ==
    /\ Aggregated
    /\ AllChunks(reply.lines)
    /\ Len(reply.lines) = 3
    /\ reply.lines[1].kind = "object" /\ reply.lines[1].done = "false"
    /\ reply.lines[2].kind = "object" /\ reply.lines[2].done = "true"
    /\ reply.lines[3].kind = "object"
    /\ reply.lines[1].response # reply.lines[2].response
    /\ agg.ok
    /\ agg.text = reply.lines[1].response \o reply.lines[2].response
    /\ agg.consumed = 2

\* the stream without its blank lines and its lines that are not JSON
WithoutMalformed(lines) ==
    SelectSeq(lines, LAMBDA l : l.kind \notin {"garbage", "blank"})

\* C4: for every line stream, get_response ends the same way (returns the
\* same text, or fails alike) as on the stream with every non-JSON line and
\* every blank line removed: such a line neither aborts the aggregation nor
\* changes the accumulator.
C4Theorem ==
    Aggregated =>
        LET clean == get_response([status |-> 200,
                                   lines |-> WithoutMalformed(reply.lines)]) IN
        /\ agg.ok = clean.ok
        /\ agg.text = clean.text
        /\ agg.status_code = clean.status_code

\* ["not json", {response: ok, done: true}] aggregated to ok
C4Witness ==
    /\ Aggregated
    /\ Len(reply.lines) = 2
    /\ reply.lines[1].kind = "garbage"
    /\ reply.lines[2].kind = "object" /\ reply.lines[2].field = "string"
    /\ reply.lines[2].done = "true"
    /\ agg.ok
    /\ agg.text = reply.lines[2].response
    /\ agg.text # <<>>

\* C9 as stated: a line that decodes to an object whose done is true is the
\* last line get_response consumes, with or without a response member.
C9Claim ==
    Aggregated =>
        \A i \in 1..Len(reply.lines) :
            /\ reply.lines[i].kind = "object"
            /\ reply.lines[i].done = "true"
            /\ i <= agg.consumed
            => agg.consumed = i

\* a line that is valid JSON but no usable chunk: not an object, or an object
\* whose response is not a string
Unusable(line) ==
    \/ line.kind \in {"number", "string_without", "string_with"}
    \/ line.kind = "object" /\ line.field = "number"

WithoutUnusable(lines) == SelectSeq(lines, LAMBDA l : ~Unusable(l))

\* C10 as stated: a line that is valid JSON but no usable chunk is skipped:
\* when the transport delivers the whole stream, get_response returns, and
\* returns what it returns for the stream without those lines.
C10Claim ==
    Aggregated /\ (\A i \in 1..Len(reply.lines) : reply.lines[i].kind # "ioerror") =>
        LET clean == get_response([status |-> 200,
                                   lines |-> WithoutUnusable(reply.lines)]) IN
        /\ agg.ok
        /\ agg.text = clean.text

-----------------------------------------------------------------------------
(* Properties of generate_text, checked under Spec *)

SentinelCount(raw) == Cardinality({i \in 1..Len(raw) : raw[i] = "D"})

ValidText(raw) == \A i \in 1..Len(raw) : raw[i] # "bad"

\* the request reached the prompt-building and backend-call steps
Accepted == pc \in {"call", "retry"} \/ calls > 0

Answered == pc = "done"

Trimmed(text) ==
    \/ text = <<>>
    \/ Head(text) \notin {" "} /\ text[Len(text)] \notin {" "}

ServerError(code) == code >= 500 /\ code <= 599

\* C2: a first call that succeeds with text empty after trimming is followed
\* by exactly one more call, whose text is what is returned; a first call
\* with other text is followed by none; a request that reaches the backend
\* makes one or two calls, never more.
C2Theorem ==
    /\ calls <= 2
    /\ calls = (IF first.called THEN 1 ELSE 0) + (IF second.called THEN 1 ELSE 0)
    /\ Answered /\ Accepted => calls \in {1, 2}
    /\ Answered /\ first.called /\ first.ok /\ first.text = <<>> => calls = 2
    /\ first.called /\ first.ok /\ first.text # <<>> =>
            calls = 1 /\ Answered /\ http = 200 /\ response = first.text
    /\ second.called => first.called /\ first.ok /\ first.text = <<>>
    /\ Answered /\ second.called /\ second.ok => http = 200 /\ response = second.text

\* backend answered empty text, then text: two calls, the second one's text
\* returned
C2Witness ==
    /\ Answered
    /\ calls = 2
    /\ first.ok /\ first.text = <<>>
    /\ second.ok /\ second.text # <<>>
    /\ http = 200
    /\ response = second.text

\* C3 as stated: every text returned with status 200 has no leading and no
\* trailing whitespace.
C3Claim == Answered /\ http = 200 => Trimmed(response)

\* C5: a failed backend call (transport exception, non-200 status, failure
\* while reading the stream) ends the request with a 5xx error and is
\* followed by no further call; the retry happens only after a successful
\* first call, and a failed retry call ends the request with a 5xx error.
C5Theorem ==
    /\ first.called /\ first.status # 200 => ~first.ok
    /\ second.called /\ second.status # 200 => ~second.ok
    /\ first.called /\ ~first.ok =>
            Answered /\ calls = 1 /\ ~second.called /\ ServerError(http)
    /\ second.called /\ ~second.ok => Answered /\ calls = 2 /\ ServerError(http)
    /\ pc = "retry" => first.ok

\* backend answered 503: one call, the client gets a 5xx
C5Witness ==
    /\ Answered
    /\ first.called /\ first.status = 503
    /\ calls = 1
    /\ ServerError(http)

\* C6 as stated: a body without the sentinel is answered 400 and causes no
\* backend call.
C6Claim == Answered /\ SentinelCount(body) = 0 => http = 400 /\ calls = 0

FirstSentinel(raw) ==
    CHOOSE i \in 1..Len(raw) : raw[i] = "D" /\ \A j \in 1..(i - 1) : raw[j] # "D"

LastCall == IF second.called THEN second ELSE first

\* C8 as stated: when the backend answers a call with a non-200 status s,
\* the client receives status s.
C8Claim ==
    Answered /\ LastCall.called /\ LastCall.status \notin {0, 200} =>
        http = LastCall.status

====
